---- MODULE Spec2Model ----
(***************************************************************************)
(* GuardianAI: a watchdog observer delivers created/moved events to        *)
(* WatcherHandler, whose process_name resolves the owner, asks the LLM     *)
(* whether the entry's name holds a personal name, and on a positive       *)
(* answer runs delete_path and send_msg_to_user.                           *)
(*                                                                         *)
(* The two source files are the two variants of the program:               *)
(*   guardianAI.py   main() passes a quarantine folder to WatcherHandler,  *)
(*   guardianAI2.py  has no quarantine and one more user_to_machine key.   *)
(* The variable `variant` says which program runs.                         *)
(*                                                                         *)
(* Strings the code takes apart (paths, owners) are sequences of tokens,   *)
(* so that os.path.basename and owner.split("\\")[-1] are computed.        *)
(* While a run is in flight nobody but the program touches the entry of    *)
(* that run or the quarantine folder (the user acts on other paths).       *)
(***************************************************************************)
EXTENDS Integers, Sequences, FiniteSets, TLC

\* ---------------------------------------------------------------- bounds
\* Events the observer delivers in one behaviour.
MaxEvents == 2
\* Entries a watched folder holds when it is created.
MaxChildren == 1

\* ------------------------------------------------------ program constants
\* delete_path(self, path, is_folder, max_retries=3, retry_delay=2)
max_retries == 3
retry_delay == 2

None == "None"
quarantine_folder == <<"Quarantine_Folder">>

Variants == {"guardianAI", "guardianAI2"}

\* ------------------------------------------------------------ path strings
SEP == "\\"
\* Watched paths: two folders of the watched tree, one base name in both.
Paths == { <<"a", "X">>, <<"b", "X">> }

RECURSIVE LastSegment(_, _)
\* The tokens after the last occurrence of sep in s (all of s without sep).
LastSegment(s, sep) ==
    IF s = <<>> THEN <<>>
    ELSE IF s[Len(s)] = sep THEN <<>>
    ELSE Append(LastSegment(SubSeq(s, 1, Len(s) - 1), sep), s[Len(s)])

\* os.path.basename(path): a path is the sequence of its components, so the
\* base name is the last component.
basename(path) == path[Len(path)]

\* os.path.join(quarantine_dir, basename)
path_join(dir, base) == Append(dir, base)

\* ----------------------------------------------------------------- owners
Unknown == <<"Unknown">>
HEKOLLI == <<"APAC", SEP, "HEKOLLI">>
KHAIRES == <<"APAC", SEP, "KHAIRES">>
SURESAD == <<"APAC", SEP, "SURESAD">>
SONIARN == <<"APAC", SEP, "SONIARN">>
SINGSID == <<"APAC", SEP, "SINGSID">>
\* An account of another domain with the bare name of a mapped one.
EMEA_HEKOLLI == <<"EMEA", SEP, "HEKOLLI">>

\* What win32security can report for an entry (get_owner's f"{domain}\\{name}").
Accounts == { HEKOLLI, SINGSID, EMEA_HEKOLLI }

\* user_to_machine of each file.
user_to_machine(v) ==
    IF v = "guardianAI"
    THEN (HEKOLLI :> "C185LX082414174") @@ (KHAIRES :> "C185LX083361454") @@
         (SURESAD :> "C185LX091093328") @@ (SONIARN :> "C185LX091074664")
    ELSE (HEKOLLI :> "C185LX082414174") @@ (KHAIRES :> "C185LX083361454") @@
         (SURESAD :> "C185LX091093328") @@ (SONIARN :> "C185LX091074664") @@
         (SINGSID :> "C185LX083361246")

\* user_to_machine.get(owner): the value, or None.
dict_get_machine_default(v, owner) ==
    IF owner \in DOMAIN user_to_machine(v) THEN user_to_machine(v)[owner]
    ELSE user_to_machine(v)[HEKOLLI]
dict_get_machine(v, owner) ==
    IF owner \in DOMAIN user_to_machine(v) THEN user_to_machine(v)[owner] ELSE None

\* owner.split("\\")[-1]
username_whole(owner) == owner
username_only(owner) == LastSegment(owner, SEP)

\* ----------------------------------------------------- the LLM's response
\* A Python value as json.loads produces it, as far as truthiness and .get
\* look at it.  ty: "bool" "str" "int" "null" "object" "array".
PyVal(ty, b, s, n, has, nf) ==
    [ty |-> ty, b |-> b, s |-> s, n |-> n, has |-> has, nf |-> nf]
NoVal == [ty |-> "null", b |-> FALSE, s |-> "", n |-> 0]
Prim(ty, b, s, n) == [ty |-> ty, b |-> b, s |-> s, n |-> n]
PyFalse == Prim("bool", FALSE, "", 0)
PyTrue == Prim("bool", TRUE, "", 0)
Scalar(p) == PyVal(p.ty, p.b, p.s, p.n, FALSE, NoVal)
Object(has, nf) == PyVal("object", FALSE, "", 0, has, nf)
Array == PyVal("array", FALSE, "", 0, FALSE, NoVal)

\* The text the chain returns: either no JSON at all, or the JSON text of val.
Text(is_json, val) == [is_json |-> is_json, val |-> val]

\* check_names' fallback text '{"name_found": false}'
FallbackText == Text(TRUE, Object(TRUE, PyFalse))

\* Texts the model's LLM answers with.
Responses ==
    { Text(TRUE, Object(TRUE, PyTrue)),                    \* {"name_found": true}
      Text(TRUE, Object(TRUE, PyFalse)),                   \* {"name_found": false}
      Text(FALSE, Scalar(NoVal)),                          \* Sure! Here is ...
      Text(TRUE, Object(FALSE, NoVal)),                    \* {"found": true}
      Text(TRUE, Array),                                   \* [true]
      Text(TRUE, Scalar(Prim("int", FALSE, "", 1))),       \* 1
      Text(TRUE, Scalar(Prim("str", FALSE, "true", 0))),   \* "true"
      Text(TRUE, Scalar(NoVal)),                           \* null
      Text(TRUE, Object(TRUE, Prim("str", FALSE, "false", 0))), \* {"name_found": "false"}
      Text(TRUE, Object(TRUE, NoVal)) }                    \* {"name_found": null}

\* Python's bool(v) for the values above.
truthy_not_none(p) == p.ty # "null"
truthy(p) ==
    CASE p.ty = "bool" -> p.b
      [] p.ty = "str"  -> p.s # ""
      [] p.ty = "int"  -> p.n # 0
      [] OTHER         -> FALSE

\* json.loads(raw_response): "JSONDecodeError" or the value.
\* response_json.get("name_found", False): "AttributeError" unless a dict.
\* The outcome of lines 159-164: [exc, name_found].
parse_name_found_noget(raw) ==
    IF ~raw.is_json THEN [exc |-> "JSONDecodeError", name_found |-> PyFalse]
    ELSE IF raw.val.ty # "object" THEN [exc |-> "AttributeError", name_found |-> PyFalse]
    ELSE [exc |-> "none", name_found |-> PyTrue]
parse_name_found(raw) ==
    IF ~raw.is_json THEN [exc |-> "JSONDecodeError", name_found |-> PyFalse]
    ELSE IF raw.val.ty # "object" THEN [exc |-> "AttributeError", name_found |-> PyFalse]
    ELSE [exc |-> "none",
          name_found |-> IF raw.val.has THEN raw.val.nf ELSE PyFalse]

\* ------------------------------------------------------------------ state
VARIABLES
    variant,       \* which of the two programs runs
    fs,            \* the watched tree: path -> entry
    qExists,       \* the quarantine folder exists
    qEntries,      \* the paths present in the quarantine folder
    queue,         \* the observer's event queue
    emitted,       \* events emitted so far
    pc,            \* where the observer thread is
    path,          \* process_name's path
    is_folder,     \* process_name's is_folder
    owner,         \* process_name's owner
    raw_response,  \* process_name's raw_response
    name_found,    \* process_name's name_found
    attempt,       \* delete_path's loop variable
    dp,            \* delete_path's record of what it did in this run
    log,           \* the lines printed in this run
    msgs,          \* the msg commands run in this run
    steps,         \* the stages of this run, in order
    exc,           \* the exception that left process_name, or "none"
    entry0,        \* fs[path] when the run began
    q0,            \* the quarantine folder when the run began
    event,         \* the event whose handler is running
    src0,          \* fs[event.src_path] when the run began
    handled,       \* the numbers of the events handed to a handler, in order
    oracleCalls,   \* llm_chain.invoke calls made so far
    ended,         \* process_name calls that are over
    api_key,       \* os.getenv("GROQ_API_KEY")
    mainpc,        \* where the main thread is
    stopInflight   \* the event in its run when observer.stop() was called, or 0

fsvars == <<fs, qExists, qEntries>>
envvars == <<queue, emitted>>
runvars == <<path, is_folder, owner, raw_response, name_found, attempt, dp, log,
             msgs, steps, exc, entry0, q0, event, src0>>
histvars == <<handled, oracleCalls, ended>>
mainvars == <<api_key, mainpc, stopInflight>>
vars == <<variant, fs, qExists, qEntries, queue, emitted, pc, path, is_folder,
          owner, raw_response, name_found, attempt, dp, log, msgs, steps, exc,
          entry0, q0, event, src0, handled, oracleCalls, ended, api_key,
          mainpc, stopInflight>>

Gone == [kind |-> "none", mode |-> "none", children |-> 0]
Entry(kind, mode, children) == [kind |-> kind, mode |-> mode, children |-> children]

NoPath == <<>>
NoOwner == <<>>
NoText == Text(FALSE, Scalar(NoVal))
NoDp == [called |-> FALSE, attempts |-> 0, failed |-> 0, sleeps |-> 0, slept |-> 0,
         chmods |-> 0, move |-> "none", result |-> "none", state |-> "none"]
NoQ == [exists |-> FALSE, entries |-> {}]

\* WatcherHandler.__init__'s quarantine_dir as main() sets it.
quarantine_dir_always == quarantine_folder
quarantine_dir == IF variant = "guardianAI" THEN quarantine_folder ELSE None

Event(kind, src, dest, isdir) ==
    [kind |-> kind, src_path |-> src, dest_path |-> dest, is_directory |-> isdir]

NoEvent == [kind |-> "none", src_path |-> NoPath, dest_path |-> NoPath,
            is_directory |-> FALSE, id |-> 0]
\* The event as the n-th one the observer queues.
Numbered(e, n) ==
    [kind |-> e.kind, src_path |-> e.src_path, dest_path |-> e.dest_path,
     is_directory |-> e.is_directory, id |-> n]

Running == pc \notin {"unstarted", "idle", "dead", "stopped"}
\* The observer emits events between observer.start() and observer.stop().
Observing == mainpc = "polling"
\* A user acts on a path while no run is using it.
Free(p) == ~(Running /\ p \in {path, event.src_path})

Keys == {None, "", "gsk"}

Init ==
    /\ variant \in Variants
    /\ fs = [p \in Paths |-> Gone]
    /\ qExists \in (IF variant = "guardianAI" THEN BOOLEAN ELSE {FALSE})
    /\ qEntries = {}
    /\ queue = <<>>
    /\ emitted = 0
    /\ pc = "unstarted"
    /\ api_key \in Keys
    /\ mainpc = "main"
    /\ stopInflight = 0
    /\ event = NoEvent
    /\ src0 = Gone
    /\ handled = <<>>
    /\ oracleCalls = 0
    /\ ended = 0
    /\ path = NoPath
    /\ is_folder = FALSE
    /\ owner = NoOwner
    /\ raw_response = NoText
    /\ name_found = PyFalse
    /\ attempt = 0
    /\ dp = NoDp
    /\ log = <<>>
    /\ msgs = <<>>
    /\ steps = <<>>
    /\ exc = "none"
    /\ entry0 = Gone
    /\ q0 = NoQ

\* ------------------------------------------------------- the event source
\* A user creates a file or a folder in the watched tree; the observer queues
\* a created event for it.
UserCreates ==
    /\ Observing
    /\ emitted < MaxEvents
    /\ \E p \in Paths, isdir \in BOOLEAN, n \in 0..MaxChildren :
          /\ fs[p].kind = "none"
          /\ Free(p)
          /\ isdir \/ n = 0
          /\ fs' = [fs EXCEPT ![p] = Entry(IF isdir THEN "dir" ELSE "file", "orig", n)]
          /\ queue' = Append(queue, Numbered(Event("created", p, p, isdir), emitted + 1))
    /\ emitted' = emitted + 1
    /\ UNCHANGED <<mainvars, histvars, variant, qExists, qEntries, pc, runvars>>

\* A user renames an entry; the observer queues a moved event.
UserMoves ==
    /\ Observing
    /\ emitted < MaxEvents
    /\ \E s \in Paths, d \in Paths :
          /\ fs[s].kind # "none"
          /\ fs[d].kind = "none"
          /\ Free(s) /\ Free(d)
          /\ fs' = [fs EXCEPT ![s] = Gone, ![d] = fs[s]]
          /\ queue' = Append(queue, Numbered(Event("moved", s, d, fs[s].kind = "dir"),
                                             emitted + 1))
    /\ emitted' = emitted + 1
    /\ UNCHANGED <<mainvars, histvars, variant, qExists, qEntries, pc, runvars>>

\* A user saves over an entry: the old one is removed (on_deleted is not
\* overridden, so that event does nothing) and a file of the same name is
\* created, for which the observer queues another created event.
UserRecreates ==
    /\ Observing
    /\ emitted < MaxEvents
    /\ \E p \in Paths :
          /\ fs[p].kind = "file"
          /\ Free(p)
          /\ fs' = [fs EXCEPT ![p] = Entry("file", "orig", 0)]
          /\ queue' = Append(queue, Numbered(Event("created", p, p, FALSE), emitted + 1))
    /\ emitted' = emitted + 1
    /\ UNCHANGED <<mainvars, histvars, variant, qExists, qEntries, pc, runvars>>

\* -------------------------------------------------------- the dispatcher
\* The observer thread takes the events of its queue one by one, oldest
\* first, while it has not been told to stop, and calls the handler.
can_dispatch_while_running == pc # "unstarted" /\ mainpc = "polling"
can_dispatch == pc = "idle" /\ mainpc = "polling"
next_event(q) == Head(q)
rest_of_queue_coalesced(q) ==
    SelectSeq(Tail(q), LAMBDA e : \/ e.src_path # Head(q).src_path
                                  \/ e.dest_path # Head(q).dest_path)
rest_of_queue(q) == Tail(q)

\* -------------------------------------------------------- process_name
\* process_name(path, is_folder) begins: lines 152-154.
Begin(p, isf) ==
    /\ pc' = "get_owner"
    /\ path' = p
    /\ is_folder' = isf
    /\ entry0' = fs[p]
    /\ q0' = [exists |-> qExists, entries |-> qEntries]
    /\ event' = next_event(queue)
    /\ src0' = fs[next_event(queue).src_path]
    /\ handled' = Append(handled, next_event(queue).id)
    /\ queue' = rest_of_queue(queue)
    /\ UNCHANGED <<mainvars, oracleCalls, ended, variant, fsvars, emitted, owner,
                   raw_response, name_found, attempt, dp, log, msgs, steps, exc>>

\* The path an event's handler passes to process_name.
created_path(e) == e.src_path
moved_path_src(e) == e.src_path
moved_path(e) == e.dest_path

\* event.is_directory, passed as is_folder (lines 185 and 188).
is_folder_arg(e) == e.is_directory

on_created ==
    /\ can_dispatch
    /\ queue # <<>>
    /\ next_event(queue).kind = "created"
    /\ Begin(created_path(next_event(queue)), is_folder_arg(next_event(queue)))

on_moved ==
    /\ can_dispatch
    /\ queue # <<>>
    /\ next_event(queue).kind = "moved"
    /\ Begin(moved_path(next_event(queue)), is_folder_arg(next_event(queue)))

\* get_owner(path) and the "detected" line: lines 155-156.  The security
\* query fails on a path that does not exist and may fail on one that does.
GetOwner ==
    /\ pc = "get_owner"
    /\ \E o \in Accounts \cup {Unknown} :
          /\ fs[path].kind = "none" => o = Unknown
          /\ owner' = o
          /\ log' = IF o = Unknown
                    THEN log \o <<"WARNING owner", "detected">>
                    ELSE Append(log, "detected")
    /\ steps' = Append(steps, "resolve")
    /\ pc' = "check_names"
    /\ UNCHANGED <<mainvars, histvars, variant, fsvars, envvars, event, src0,
                   path, is_folder, raw_response,
                   name_found, attempt, dp, msgs, exc, entry0, q0>>

\* Chain.check_names(name): the LLM answers with a text, or the call raises
\* (transport error, timeout) and the fallback text is returned.
check_names_result(failed, text) == IF failed THEN FallbackText ELSE text

CheckNames ==
    /\ pc = "check_names"
    /\ \E failed \in BOOLEAN, text \in Responses :
          /\ failed => text = FallbackText
          /\ raw_response' = check_names_result(failed, text)
          /\ log' = IF failed THEN Append(log, "ERROR llm") ELSE log
    /\ oracleCalls' = oracleCalls + 1
    /\ steps' = Append(steps, "classify")
    /\ pc' = "parse"
    /\ UNCHANGED <<mainvars, handled, ended, variant, fsvars, envvars, event, src0,
                   path, is_folder, owner, name_found,
                   attempt, dp, msgs, exc, entry0, q0>>

\* json.loads, .get and the branch on name_found: lines 159-167 and 181-182.
\* Only json.JSONDecodeError is caught; an AttributeError leaves process_name.
Parse ==
    /\ pc = "parse"
    /\ LET r == parse_name_found(raw_response) IN
          IF r.exc = "AttributeError"
          THEN /\ exc' = "AttributeError"
               /\ pc' = "raised"
               /\ UNCHANGED <<name_found, log>>
          ELSE /\ name_found' = r.name_found
               /\ exc' = exc
               /\ pc' = IF truthy(r.name_found) THEN "delete_path" ELSE "Clean"
               /\ log' = (IF r.exc = "JSONDecodeError"
                          THEN Append(log, "WARNING invalid json") ELSE log)
                         \o (IF truthy(r.name_found)
                             THEN <<"ALERT">> ELSE <<"INFO no name">>)
    /\ UNCHANGED <<mainvars, histvars, variant, fsvars, envvars, event, src0,
                   path, is_folder, owner, raw_response,
                   attempt, dp, msgs, steps, entry0, q0>>

\* ---------------------------------------------------------- delete_path
\* What delete_path returns, with the state of section 4.3 it ends in.
Returned(d, result, state) == [d EXCEPT !.result = result, !.state = state]

\* os.path.exists(path)
path_exists_always(p) == TRUE
path_exists(p) == fs[p].kind # "none"

\* Lines 103-105: a path that does not exist returns False at once.
DeleteEnter ==
    /\ pc = "delete_path"
    /\ steps' = Append(steps, "delete")
    /\ IF ~path_exists(path)
       THEN /\ log' = Append(log, "INFO path does not exist")
            /\ dp' = Returned([dp EXCEPT !.called = TRUE], "False", "Failed")
            /\ pc' = "route"
            /\ UNCHANGED attempt
       ELSE /\ dp' = [dp EXCEPT !.called = TRUE]
            /\ attempt' = 1
            /\ pc' = "dp_try"
            /\ UNCHANGED log
    /\ UNCHANGED <<mainvars, histvars, variant, fsvars, envvars, event, src0,
                   path, is_folder, owner, raw_response,
                   name_found, msgs, exc, entry0, q0>>

\* Does the body of the try raise?  os.remove raises when it cannot remove the
\* file; shutil.rmtree hands every error to on_rm_error, which catches what
\* its own retry raises, so rmtree returns normally whatever is left behind.
removal_raises(isf, removed) == ~isf /\ ~removed

\* After a failed attempt: sleep and loop (line 135), or give up (line 137).
more_attempts_offbyone(a) == a + 1 < max_retries
more_attempts(a) == a < max_retries

\* One pass of the loop body, lines 107-133: the permission fix, then
\* os.remove or shutil.rmtree with on_rm_error.
\*   chmod_ok: the permission fix went through;
\*   left:     the entries of a folder that even on_rm_error could not remove;
\*   gone:     the file was unlinked / the emptied folder was removed.
DeleteAttempt ==
    /\ pc = "dp_try"
    /\ \E chmod_ok \in BOOLEAN, left \in 0..fs[path].children, gone \in BOOLEAN,
          h_chmod_ok \in BOOLEAN :
          LET e == fs[path]
              \* os.remove removes files only; rmtree's handler unlinks a file too
              removed == gone /\ left = 0 /\ (is_folder \/ e.kind = "file")
              \* on_rm_error's os.chmod(path, stat.S_IWRITE) on the folder itself
              rm_error_chmod == is_folder /\ ~removed /\ h_chmod_ok
              mode1 == IF rm_error_chmod THEN "S_IWRITE"
                       ELSE IF chmod_ok THEN "0o777" ELSE e.mode
              after == IF removed THEN Gone ELSE Entry(e.kind, mode1, left)
              d1 == [dp EXCEPT !.attempts = @ + 1,
                               !.chmods = @ + (IF chmod_ok THEN 1 ELSE 0)
                                            + (IF rm_error_chmod THEN 1 ELSE 0),
                               !.failed = @ + (IF removed THEN 0 ELSE 1)]
              log1 == (IF chmod_ok THEN log ELSE Append(log, "WARNING permissions"))
                      \o (IF is_folder /\ ~removed
                          THEN <<"ERROR could not remove">> ELSE <<>>)
          IN  /\ is_folder \/ left = fs[path].children
              /\ (is_folder /\ ~removed) \/ ~h_chmod_ok
              /\ fs' = [fs EXCEPT ![path] = after]
              /\ IF ~removal_raises(is_folder, removed)
                 THEN /\ log' = Append(log1, "ACTION deleted")
                      /\ dp' = Returned(d1, "True", "Deleted")
                      /\ pc' = "route"
                 ELSE /\ log' = Append(log1, "WARNING attempt failed")
                      /\ dp' = d1
                      /\ pc' = IF more_attempts(attempt)
                               THEN "dp_sleep" ELSE "dp_exhausted"
    /\ UNCHANGED <<mainvars, histvars, variant, qExists, qEntries, envvars, event, src0,
                   path, is_folder, owner,
                   raw_response, name_found, attempt, msgs, steps, exc, entry0, q0>>

\* time.sleep(retry_delay), line 136, and the loop's next value.
DeleteSleep ==
    /\ pc = "dp_sleep"
    /\ dp' = [dp EXCEPT !.sleeps = @ + 1, !.slept = @ + retry_delay]
    /\ attempt' = attempt + 1
    /\ pc' = "dp_try"
    /\ UNCHANGED <<mainvars, histvars, variant, fsvars, envvars, event, src0,
                   path, is_folder, owner, raw_response,
                   name_found, log, msgs, steps, exc, entry0, q0>>

\* shutil.move(path, quarantine_path) after os.makedirs(quarantine_dir,
\* exist_ok=True), lines 141-144.  move renames; when the rename fails it
\* copies and then removes the source.  What each outcome leaves behind:
\*   made: the quarantine folder exists afterwards,
\*   dest: the entry is at quarantine_path, src_gone: the source is gone,
\*   raises: an exception reaches line 147.
MoveOutcomes ==
    {"makedirs fails", "renamed", "copy fails", "copied, source removed",
     "copied, source not removed"}
move_effect_copy(o) ==
    [made |-> o # "makedirs fails",
     dest |-> o \in {"renamed", "copied, source removed", "copied, source not removed"},
     src_gone |-> FALSE,
     raises |-> o \in {"makedirs fails", "copy fails", "copied, source not removed"}]
move_effect(o) ==
    [made |-> o # "makedirs fails",
     dest |-> o \in {"renamed", "copied, source removed", "copied, source not removed"},
     src_gone |-> o \in {"renamed", "copied, source removed"},
     raises |-> o \in {"makedirs fails", "copy fails", "copied, source not removed"}]

\* What line 146 / line 150 return after the move.
move_return(raises) == IF raises THEN "False" ELSE "True"

\* Where the entry goes in the quarantine folder: lines 142-143.
quarantine_path(dir, p) == path_join(dir, basename(p))

\* Lines 137-150: all attempts failed.
DeleteExhausted ==
    /\ pc = "dp_exhausted"
    /\ IF quarantine_dir # None
       THEN \E o \in MoveOutcomes :
               LET m == move_effect(o) IN
               /\ qExists => o # "makedirs fails"
               /\ qExists' = (qExists \/ m.made)
               /\ qEntries' = IF m.dest
                              THEN qEntries \cup {quarantine_path(quarantine_dir, path)}
                              ELSE qEntries
               /\ fs' = IF m.src_gone THEN [fs EXCEPT ![path] = Gone] ELSE fs
               /\ dp' = Returned([dp EXCEPT !.move = o], move_return(m.raises),
                                 IF m.raises THEN "Failed" ELSE "Quarantined")
               /\ log' = IF m.raises
                         THEN log \o <<"ERROR move failed", "ERROR failed to delete">>
                         ELSE Append(log, "ACTION quarantined")
       ELSE /\ dp' = Returned(dp, "False", "Failed")
            /\ log' = Append(log, "ERROR failed to delete")
            /\ UNCHANGED fsvars
    /\ pc' = "route"
    /\ UNCHANGED <<mainvars, histvars, variant, envvars, event, src0,
                   path, is_folder, owner, raw_response,
                   name_found, attempt, msgs, steps, exc, entry0, q0>>

\* ------------------------------------------------------ send_msg_to_user
\* subprocess.run(cmd, check=True): the command runs and exits 0, exits
\* non-zero (CalledProcessError), or cannot be started (FileNotFoundError,
\* an OSError).  send_msg_to_user catches CalledProcessError only.
MsgOutcomes == {"exit 0", "exit non-zero", "cannot start"}
send_msg_raises(o) == o = "cannot start"

\* if client_machine: (line 174)
has_machine_always(m) == TRUE
has_machine(m) == m # None

\* Lines 172-180: the message to the owner's machine, or the warning.
Route ==
    /\ pc = "route"
    /\ steps' = Append(steps, "notify")
    /\ LET client_machine == dict_get_machine(variant, owner) IN
       IF has_machine(client_machine)
       THEN \E o \in MsgOutcomes :
               /\ msgs' = Append(msgs, [machine |-> client_machine,
                                        username |-> username_only(owner),
                                        outcome |-> o])
               /\ log' = IF o = "exit 0" THEN Append(log, "INFO sent")
                         ELSE IF o = "exit non-zero" THEN Append(log, "ERROR send")
                         ELSE log
               /\ exc' = IF send_msg_raises(o) THEN "FileNotFoundError" ELSE exc
               /\ pc' = IF send_msg_raises(o) THEN "raised" ELSE "Done"
       ELSE /\ log' = Append(log, "WARNING no mapping")
            /\ pc' = "Done"
            /\ UNCHANGED <<msgs, exc>>
    /\ UNCHANGED <<mainvars, histvars, variant, fsvars, envvars, event, src0,
                   path, is_folder, owner, raw_response,
                   name_found, attempt, dp, entry0, q0>>

\* The locals of process_name go away when the call is over.
ResetLocals ==
    /\ path' = NoPath
    /\ is_folder' = FALSE
    /\ owner' = NoOwner
    /\ raw_response' = NoText
    /\ name_found' = PyFalse
    /\ attempt' = 0
    /\ dp' = NoDp
    /\ log' = <<>>
    /\ msgs' = <<>>
    /\ steps' = <<>>
    /\ entry0' = Gone
    /\ q0' = NoQ
    /\ event' = NoEvent
    /\ src0' = Gone

\* An exception that leaves process_name leaves on_created / on_moved too
\* (lines 184-188 catch nothing) and ends the observer thread that called
\* them: the events still queued, and those queued later, are never handled.
ThreadDies ==
    /\ pc = "raised"
    /\ pc' = "dead"
    /\ ResetLocals
    /\ ended' = ended + 1
    /\ UNCHANGED <<mainvars, handled, oracleCalls, variant, fsvars, envvars, exc>>

\* process_name returns to the observer thread, which takes the next event.
Return ==
    /\ pc \in {"Clean", "Done"}
    /\ pc' = "idle"
    /\ ResetLocals
    /\ ended' = ended + 1
    /\ UNCHANGED <<mainvars, handled, oracleCalls, variant, fsvars, envvars, exc>>

\* ------------------------------------------------------------------ main
\* Chain.__init__, lines 29-31: `if not api_key: raise ValueError`.
key_missing_never(k) == FALSE
key_missing(k) == k \in {None, ""}

\* main, lines 194-199: Chain() raises and main ends before the observer is
\* made, or the observer is scheduled and started.
MainStart ==
    /\ mainpc = "main"
    /\ IF key_missing(api_key)
       THEN /\ mainpc' = "aborted"
            /\ exc' = "ValueError"
            /\ pc' = pc
       ELSE /\ mainpc' = "polling"
            /\ exc' = exc
            /\ pc' = "idle"
    /\ UNCHANGED <<api_key, stopInflight, histvars, variant, fsvars, envvars,
                   path, is_folder, owner, raw_response, name_found, attempt, dp,
                   log, msgs, steps, entry0, q0, event, src0>>

\* main, lines 204-206: KeyboardInterrupt ends the polling loop and
\* observer.stop() tells the observer thread and its emitter to stop.
MainStop ==
    /\ mainpc = "polling"
    /\ mainpc' = "joining"
    /\ stopInflight' = IF Running THEN event.id ELSE 0
    /\ UNCHANGED <<api_key, histvars, variant, fsvars, envvars, pc, runvars>>

\* The observer thread finds the stop request when it is between events.
ThreadStops ==
    /\ pc = "idle"
    /\ mainpc = "joining"
    /\ pc' = "stopped"
    /\ UNCHANGED <<mainvars, histvars, variant, fsvars, envvars, runvars>>

\* main, line 207: observer.join() returns once the observer thread has
\* ended, and the process exits.
MainJoin ==
    /\ mainpc = "joining"
    /\ pc \in {"stopped", "dead"}
    /\ mainpc' = "exited"
    /\ UNCHANGED <<api_key, stopInflight, histvars, variant, fsvars, envvars, pc,
                   runvars>>

\* The process from its start, for as long as no interrupt arrives.
Next ==
    \/ MainStart
    \/ UserCreates
    \/ UserMoves
    \/ UserRecreates
    \/ on_created
    \/ on_moved
    \/ GetOwner
    \/ CheckNames
    \/ Parse
    \/ DeleteEnter
    \/ DeleteAttempt
    \/ DeleteSleep
    \/ DeleteExhausted
    \/ Route
    \/ Return
    \/ ThreadDies

Spec == Init /\ [][Next]_vars

\* The process with the interrupt that ends it.
Shutdown ==
    \/ MainStop
    \/ ThreadStops
    \/ MainJoin

NextShutdown ==
    \/ Next
    \/ Shutdown

SpecShutdown == Init /\ [][NextShutdown]_vars

\* ------------------------------------------------------------ vocabulary
InLog(line) == \E i \in DOMAIN log : log[i] = line
CountLog(lines) == Cardinality({i \in DOMAIN log : log[i] \in lines})
InSteps(st) == \E i \in DOMAIN steps : steps[i] = st

\* The lines printed with the [INFO] tag.
InfoLines == {"INFO no name", "INFO path does not exist", "INFO sent"}

\* The run has passed lines 159-166: name_found is the verdict of this run.
Classified == pc \in {"Clean", "delete_path", "dp_try", "dp_sleep", "dp_exhausted",
                      "route", "Done"}
                \/ (pc = "raised" /\ exc = "FileNotFoundError")
\* The run is over: process_name returned or an exception left it.
Finished == pc \in {"Clean", "Done", "raised"}
\* delete_path has returned in this run.
DeleteReturned == dp.result # "none"
\* The verdict the branch of line 166 acts on.
Verdict == Classified /\ truthy(name_found)
OwnerMapped == owner \in DOMAIN user_to_machine(variant)
QuarantineUnchanged == qExists = q0.exists /\ qEntries = q0.entries

\* The shapes of the oracle's outcome.
LlmFailed == InLog("ERROR llm")
NotJson == ~raw_response.is_json
MissingKey == raw_response.is_json /\ raw_response.val.ty = "object"
              /\ ~raw_response.val.has
WellFormed == raw_response.is_json /\ raw_response.val.ty = "object"
              /\ raw_response.val.has /\ raw_response.val.nf.ty = "bool"
UnexpectedSchema ==
    /\ raw_response.is_json
    /\ \/ raw_response.val.ty # "object"
       \/ raw_response.val.has /\ raw_response.val.nf.ty \notin {"bool"}
\* check_names has returned in this run.
Answered == Running /\ pc \notin {"get_owner", "check_names"}

\* ----------------------------------------------------------------- C1
\* C1: send_msg_to_user is invoked (at most once) only when the verdict is
\* true and the owner is a key of user_to_machine, and in every finished run
\* it has been invoked exactly when both hold; a true verdict with an
\* unmapped owner (Unknown included) ends with no message and the
\* "no client machine mapping" warning; a false verdict sends nothing.
C1_NotifyIffVerdictAndMapping ==
    /\ Len(msgs) <= 1
    /\ msgs # <<>> => Verdict /\ OwnerMapped
    /\ Finished => ((msgs # <<>>) <=> (Verdict /\ OwnerMapped))
    /\ (Finished /\ Verdict /\ ~OwnerMapped) =>
          msgs = <<>> /\ InLog("WARNING no mapping")
    /\ (Classified /\ ~Verdict) => msgs = <<>> /\ pc = "Clean"
\* A violating run of a mapped owner has sent its message.
C1_Witness ==
    pc = "Done" /\ Len(msgs) = 1 /\ owner = SINGSID /\ msgs[1].outcome = "exit 0"

\* ----------------------------------------------------------------- C2
\* C2: when the oracle's outcome is malformed (text that is not JSON, an
\* object without name_found, a failed or timed-out call), the verdict is
\* false, no exception leaves process_name, delete_path is not called, the
\* entry is as it was and no message is sent: the run is Clean.
C2_MalformedIsClean ==
    (Answered /\ pc # "parse" /\ (NotJson \/ MissingKey \/ LlmFailed)) =>
        /\ pc = "Clean"
        /\ exc = "none"
        /\ ~truthy(name_found)
        /\ ~dp.called /\ dp.attempts = 0
        /\ fs[path] = entry0
        /\ QuarantineUnchanged
        /\ msgs = <<>>
\* The oracle call failed on an existing entry and the run ended Clean.
C2_Witness ==
    pc = "Clean" /\ LlmFailed /\ entry0.kind # "none" /\ fs[path] = entry0

\* ----------------------------------------------------------------- C3
\* C3 (as claimed): when the response is well-formed JSON of another schema
\* (not an object, or name_found not a boolean), the verdict is false, no
\* exception leaves process_name, and nothing is deleted or notified.
C3_UnexpectedSchemaIsClean ==
    (Answered /\ pc # "parse" /\ ~LlmFailed /\ UnexpectedSchema) =>
        /\ pc = "Clean"
        /\ exc = "none"
        /\ ~dp.called
        /\ msgs = <<>>

\* ----------------------------------------------------------------- C4
\* C4 (as claimed): when delete_path has returned for an entry that existed
\* and every removal attempt it made left the entry in place, it has made
\* exactly max_retries attempts and exactly max_retries - 1 pauses, and
\* ended in the quarantine move or in failure.
C4_ExactlyMaxRetries ==
    (DeleteReturned /\ entry0.kind # "none" /\ dp.failed = dp.attempts) =>
        /\ dp.attempts = max_retries
        /\ dp.sleeps = max_retries - 1
        /\ dp.state \in {"Quarantined", "Failed"}

\* ----------------------------------------------------------------- C5
\* C5: with a quarantine folder configured, when all max_retries attempts
\* have failed and delete_path has returned, the move was attempted; if it
\* succeeded the call returned True, the quarantine folder exists, the entry
\* is at quarantine_dir/basename(path) and the original path is gone; if it
\* failed the call returned False and no exception left delete_path.
C5_QuarantineMove ==
    (quarantine_dir # None /\ DeleteReturned /\ entry0.kind # "none"
       /\ dp.attempts = max_retries /\ dp.failed = max_retries) =>
        /\ dp.move \in MoveOutcomes
        /\ dp.move \in {"renamed", "copied, source removed"} =>
              /\ dp.result = "True" /\ dp.state = "Quarantined"
              /\ qExists
              /\ <<"Quarantine_Folder", path[Len(path)]>> \in qEntries
              /\ fs[path].kind = "none"
        /\ dp.move \notin {"renamed", "copied, source removed"} =>
              /\ dp.result = "False" /\ dp.state = "Failed"
              /\ exc = "none" \/ pc = "raised"
              /\ pc \in {"route", "Done", "raised"}
\* An undeletable file was moved into a quarantine folder made for it.
C5_Witness ==
    /\ pc = "route" /\ dp.state = "Quarantined" /\ dp.attempts = max_retries
    /\ ~q0.exists /\ qExists /\ fs[path].kind = "none"

\* ----------------------------------------------------------------- C6
\* C6: in the program without a quarantine folder (guardianAI2.py, where
\* delete_path has no quarantine branch), when all max_retries attempts
\* have failed and delete_path has returned, it returned False, the entry is
\* still at its path and the quarantine folder is as it was (nothing moved,
\* nothing created).
C6_NoQuarantineLeavesEntry ==
    (variant = "guardianAI2" /\ DeleteReturned /\ entry0.kind # "none"
       /\ dp.attempts = max_retries /\ dp.failed = max_retries) =>
        /\ dp.result = "False" /\ dp.state = "Failed"
        /\ dp.move = "none"
        /\ fs[path].kind = entry0.kind
        /\ fs[path].children = entry0.children
        /\ QuarantineUnchanged
\* delete_path gave up on a file of the program without quarantine.
C6_Witness ==
    /\ variant = "guardianAI2" /\ pc = "route" /\ dp.state = "Failed"
    /\ dp.attempts = max_retries /\ fs[path].kind = "file"

\* ----------------------------------------------------------------- C7
\* C7: when delete_path is called on a path that does not exist, it returns
\* False (Failed) at once: no exception, no permission change, no removal
\* attempt, no sleep, and the quarantine folder is neither made nor written.
C7_MissingPathFailsAtOnce ==
    (dp.called /\ entry0.kind = "none") =>
        /\ dp.result = "False" /\ dp.state = "Failed"
        /\ pc \in {"route", "Done", "raised"}
        /\ dp.attempts = 0 /\ dp.sleeps = 0 /\ dp.chmods = 0
        /\ dp.move = "none"
        /\ fs[path] = Gone
        /\ QuarantineUnchanged
\* A violating name on a path that was renamed away before its run.
C7_Witness ==
    pc = "route" /\ dp.called /\ entry0.kind = "none" /\ InLog("INFO path does not exist")

\* ----------------------------------------------------------------- C8
\* C8 (as claimed): in a violating run the stages come in the order resolve,
\* classify, delete, notify; delete_path has returned before the routing
\* starts; the routing is attempted after every outcome of delete_path; and
\* once the routing has been attempted the run is Done.
C8_OrderAndDone ==
    /\ \E n \in 0..4 : steps = SubSeq(<<"resolve", "classify", "delete", "notify">>, 1, n)
    /\ InSteps("notify") => DeleteReturned
    /\ (Verdict /\ Finished) => InSteps("notify")
    /\ InSteps("notify") => pc = "Done"

\* ----------------------------------------------------------------- C9
\* C9: a response {"name_found": b} with b a boolean gives the verdict b;
\* when b is false the run is Clean, the entry, its permissions and the
\* quarantine folder are as they were, no message is sent and one [INFO]
\* line has been printed.
C9_WellFormedVerdict ==
    (Answered /\ pc # "parse" /\ WellFormed) =>
        /\ exc # "AttributeError"
        /\ name_found = raw_response.val.nf
        /\ Verdict = raw_response.val.nf.b
        /\ ~raw_response.val.nf.b =>
              /\ pc = "Clean"
              /\ fs[path] = entry0
              /\ QuarantineUnchanged
              /\ ~dp.called /\ dp.chmods = 0
              /\ msgs = <<>>
              /\ CountLog(InfoLines) = 1 /\ InLog("INFO no name")
\* The oracle answered {"name_found": false} for an existing entry.
C9_Witness ==
    /\ pc = "Clean" /\ WellFormed /\ ~LlmFailed /\ ~raw_response.val.nf.b
    /\ entry0.kind # "none"

\* ---------------------------------------------------------------- C10
\* C10 (as claimed): whatever fails in a run, no exception leaves
\* process_name, so the observer thread goes on to the next event.
C10_NoExceptionLeaves ==
    pc \notin {"raised", "dead"}

\* ---------------------------------------------------------------- C11
\* C11 (as claimed): when the msg command of a mapped owner fails (non-zero
\* exit, or it cannot be started), the failure is logged, the command has
\* been run once only, and no exception leaves send_msg_to_user: the run is
\* Done.
C11_MsgFailureSwallowed ==
    (msgs # <<>> /\ msgs[1].outcome # "exit 0") =>
        /\ Len(msgs) = 1
        /\ InLog("ERROR send")
        /\ pc = "Done"

\* ---------------------------------------------------------------- C12
\* C12: the events are handed to the handler in the order they were queued,
\* none skipped; at most one process_name call is in progress, and it is the
\* call for the latest event taken, every earlier call being over; the
\* events still queued are the ones that follow it.
C12_OneAtATimeInOrder ==
    /\ \A i \in DOMAIN handled : handled[i] = i
    /\ Len(handled) - ended = (IF Running THEN 1 ELSE 0)
    /\ Running => event.id = Len(handled)
    /\ \A i \in DOMAIN queue : queue[i].id = Len(handled) + i
\* The second event waits in the queue while the run of the first sleeps
\* between two attempts.
C12_Witness ==
    pc = "dp_sleep" /\ handled = <<1>> /\ Len(queue) = 1 /\ queue[1].id = 2

\* ---------------------------------------------------------------- C13
\* C13 (as claimed): once the process has exited after the interrupt, the
\* observer thread has ended with no run in progress, and a run that was in
\* flight when observer.stop() was called has returned (Clean or Done), so
\* the thread ended by the stop request and not by an exception.
C13_InflightRunCompletes ==
    mainpc = "exited" =>
        /\ ~Running
        /\ stopInflight # 0 => pc = "stopped" /\ ended >= stopInflight

\* ---------------------------------------------------------------- C14
\* C14: a run whose owner is Unknown has printed the owner warning, goes on
\* to classify, calls delete_path when the verdict is violating, sends no
\* message, and ends Done with the "no mapping" warning.
C14_UnknownOwnerRun ==
    (Running /\ pc # "get_owner" /\ owner = Unknown) =>
        /\ InLog("WARNING owner")
        /\ pc # "check_names" => InSteps("classify")
        /\ (Verdict /\ pc \in {"route", "Done", "raised"}) => dp.called /\ DeleteReturned
        /\ msgs = <<>>
        /\ (Finished /\ Verdict) => pc = "Done" /\ InLog("WARNING no mapping")
\* An entry whose owner could not be resolved was deleted.
C14_Witness ==
    /\ pc = "Done" /\ owner = Unknown /\ entry0.kind # "none"
    /\ dp.state = "Deleted" /\ fs[path].kind = "none"

\* ---------------------------------------------------------------- C15
\* C15: a message goes to the machine user_to_machine gives for exactly the
\* resolved owner, for the user name after the last backslash: APAC\HEKOLLI
\* to C185LX082414174 for HEKOLLI, APAC\SINGSID (guardianAI2.py) to
\* C185LX083361246 for SINGSID, nothing for EMEA\HEKOLLI; a finished
\* violating run of a mapped owner has run the command exactly once.
C15_RoutedToOwnersMachine ==
    /\ \A i \in DOMAIN msgs :
          /\ owner \in {HEKOLLI, SINGSID}
          /\ owner = HEKOLLI =>
                /\ msgs[i].machine = "C185LX082414174"
                /\ msgs[i].username = <<"HEKOLLI">>
          /\ owner = SINGSID =>
                /\ variant = "guardianAI2"
                /\ msgs[i].machine = "C185LX083361246"
                /\ msgs[i].username = <<"SINGSID">>
    /\ (Finished /\ Verdict /\ OwnerMapped) => Len(msgs) = 1
\* The folder scenario: a folder of APAC\HEKOLLI, deleted, message sent.
C15_Witness ==
    /\ pc = "Done" /\ is_folder /\ owner = HEKOLLI /\ dp.state = "Deleted"
    /\ Len(msgs) = 1 /\ msgs[1].outcome = "exit 0"

\* ---------------------------------------------------------------- C16
\* C16: with GROQ_API_KEY unset or empty, main ends with ValueError before
\* the observer exists: no event is queued or handled, the oracle is never
\* called, nothing is deleted or quarantined.
C16_MissingKeyAbortsStartup ==
    (api_key \in {None, ""} /\ mainpc # "main") =>
        /\ mainpc = "aborted" /\ exc = "ValueError"
        /\ pc = "unstarted"
        /\ queue = <<>> /\ emitted = 0 /\ handled = <<>>
        /\ oracleCalls = 0
        /\ msgs = <<>> /\ ~dp.called
        /\ \A p \in Paths : fs[p] = Gone
        /\ qEntries = {}
\* Startup aborted for the unset key.
C16_Witness ==
    api_key = None /\ mainpc = "aborted" /\ exc = "ValueError"

\* ---------------------------------------------------------------- C17
\* C17 (as claimed): when delete_path has returned True, nothing is left at
\* the original path.
C17_SuccessMeansGone ==
    dp.result = "True" => fs[path].kind = "none"

\* ---------------------------------------------------------------- C18
\* C18: when the removal has succeeded on attempt k, delete_path has made
\* exactly k attempts and k - 1 pauses of retry_delay and returned True with
\* the quarantine folder as it was; the quarantine folder changes only after
\* max_retries failed attempts.
C18_SuccessOnAttemptK ==
    /\ (dp.state = "Deleted" /\ fs[path].kind = "none") =>
          /\ attempt \in 1..max_retries
          /\ dp.result = "True"
          /\ dp.attempts = attempt
          /\ dp.failed = attempt - 1
          /\ dp.sleeps = attempt - 1
          /\ dp.slept = retry_delay * (attempt - 1)
          /\ dp.move = "none"
          /\ QuarantineUnchanged
    /\ (Running /\ ~QuarantineUnchanged) =>
          dp.attempts = max_retries /\ dp.failed = max_retries
          /\ dp.sleeps = max_retries - 1
\* A file removed by the last attempt, after two pauses.
C18_Witness ==
    /\ pc = "route" /\ dp.state = "Deleted" /\ fs[path].kind = "none"
    /\ ~is_folder /\ attempt = 3 /\ dp.sleeps = 2

C20_RunsOnEventPath ==
    /\ \A i, j \in DOMAIN handled : handled[i] = handled[j] => i = j
    /\ Running =>
          /\ event.kind \in {"created", "moved"}
          /\ event.id = handled[Len(handled)]
          /\ event.kind = "created" => path = event.src_path
          /\ event.kind = "moved" =>
                /\ path = event.dest_path
                /\ path # event.src_path
                /\ fs[event.src_path] = src0
          /\ is_folder = event.is_directory
\* A renamed folder was deleted at its new path.
C20_Witness ==
    /\ pc = "route" /\ event.kind = "moved" /\ is_folder
    /\ dp.state = "Deleted" /\ fs[path].kind = "none"
====
